---- MODULE Spec2Model ----
(***************************************************************************)
(* BlogHub: the comment thread of a post, and the posts list.             *)
(*                                                                         *)
(*   - the store: tables comments, comment_likes, posts and post_likes     *)
(*     with their foreign keys, UNIQUE constraints, row-level-security     *)
(*     policies and likes_count triggers                                   *)
(*     (supabase/migrations/..._stark_cherry.sql);                         *)
(*   - the client: hook useComments (fetchComments, createComment,         *)
(*     deleteComment, toggleCommentLike) and the handlers of component     *)
(*     CommentSection that call it; hook usePosts (fetchPosts, createPost, *)
(*     toggleLike) and the pages that call it.                             *)
(*                                                                         *)
(* Every await of the hook is a step boundary: a call is a task whose pc   *)
(* names the request it is waiting for.                                    *)
(***************************************************************************)
EXTENDS Integers, Sequences, FiniteSets, TLC

----------------------------------------------------------------------------
(* Bounds *)

MaxComments == 3      \* comment rows ever inserted (ids 1..MaxComments)
MaxLikes    == 2      \* comment_likes rows ever inserted
MaxRows     == 3      \* rows ever inserted, of both tables together
MaxTasks    == 2      \* handlers running at the same time
MaxFlat     == 3      \* length of the flat sets given to the tree builder
MaxPosts    == 2      \* posts rows ever inserted

NULL   == 0           \* SQL NULL / JS null for ids
NoUser == "anon"      \* no authenticated user (auth.uid() is NULL)

Users   == {"u1", "u2"}
Clients == {"c1"}
\* the post whose page each browser shows (prop postId of CommentSection)
PostOf(c) == "p1"

Space == " "
\* what the textarea of the comment and reply forms can hold
Contents == {<<>>, <<Space>>, <<"a">>}

\* what the title field of the post form can hold
Titles == {<<"A">>, <<"b", Space, "!">>}
\* what the search field of the home page can hold
Queries == {<<>>, <<"A">>, <<"b">>, <<"c">>}
\* the slugs of table categories; NoCategory is the option "All Categories"
\* of the select (the empty string) and a post without category
CategorySlugs == {"technology"}
NoCategory == ""
NoQuery == [searchQuery |-> <<>>, categorySlug |-> NoCategory]

----------------------------------------------------------------------------
(* String.prototype.trim, on sequences of characters *)

RECURSIVE TrimLeft(_)
TrimLeft(s) ==
    IF s # <<>> /\ Head(s) = Space THEN TrimLeft(Tail(s)) ELSE s

RECURSIVE TrimRight(_)
TrimRight(s) ==
    IF s # <<>> /\ s[Len(s)] = Space
    THEN TrimRight(SubSeq(s, 1, Len(s) - 1)) ELSE s

Trim(s) == TrimRight(TrimLeft(s))

\* !content.trim() : the empty string is falsy
EmptyAfterTrim(s) == Trim(s) = <<>>

----------------------------------------------------------------------------
(* Strings of posts: toLowerCase, the slug of createPost, ILIKE *)

ToLowerCase(s) ==
    [i \in DOMAIN s |-> IF s[i] = "A" THEN "a"
                        ELSE IF s[i] = "B" THEN "b" ELSE s[i]]

\* \w of a regular expression
WordChars == {"a", "b", "c", "A", "B", "_"}

\* .replace(/[^\w\s-]/g, '')
RECURSIVE StripChars(_)
StripChars(s) ==
    IF s = <<>> THEN <<>>
    ELSE IF Head(s) \in WordChars \cup {Space, "-"}
         THEN <<Head(s)>> \o StripChars(Tail(s))
         ELSE StripChars(Tail(s))

\* .replace(/\s+/g, '-'): every run of white space becomes one hyphen
RECURSIVE Hyphenate(_)
Hyphenate(s) ==
    IF s = <<>> THEN <<>>
    ELSE IF Head(s) = Space
         THEN <<"-">> \o Hyphenate(TrimLeft(s))
         ELSE <<Head(s)>> \o Hyphenate(Tail(s))

\* the slug createPost derives from the title
SlugOf(title) == Hyphenate(StripChars(ToLowerCase(title)))

\* q occurs in text
Contains(text, q) ==
    \E i \in 0..(Len(text) - Len(q)) : SubSeq(text, i + 1, i + Len(q)) = q

\* column ILIKE %q%
ILike(text, q) == Contains(ToLowerCase(text), ToLowerCase(q))

----------------------------------------------------------------------------
(* Tree construction of fetchComments *)

\* Map.prototype.set
MapSet(m, k, v) == [x \in (DOMAIN m) \cup {k} |-> IF x = k THEN v ELSE m[x]]

EmptyTree == [commentMap |-> <<>>, rootComments |-> <<>>]

\* FirstPass without the test of parent_id: every comment is a root
RECURSIVE FirstPassAllRoots(_, _, _)
FirstPassAllRoots(data, i, acc) ==
    IF i > Len(data) THEN acc
    ELSE LET comment == data[i]
         IN FirstPassAllRoots(data, i + 1,
               [commentMap   |-> MapSet(acc.commentMap, comment.id,
                                        [row |-> comment, replies |-> <<>>]),
                rootComments |-> Append(acc.rootComments, comment.id)])

\* FirstPass that also links a reply whose parent is already in the map,
\* before the second pass links every reply
RECURSIVE FirstPassLinking(_, _, _)
FirstPassLinking(data, i, acc) ==
    IF i > Len(data) THEN acc
    ELSE LET comment == data[i]
             commentWithReplies == [row |-> comment, replies |-> <<>>]
             linked == IF comment.parent_id # NULL
                          /\ comment.parent_id \in DOMAIN acc.commentMap
                       THEN [acc.commentMap EXCEPT
                                ![comment.parent_id].replies =
                                    Append(@, comment.id)]
                       ELSE acc.commentMap
         IN FirstPassLinking(data, i + 1,
               [commentMap   |-> MapSet(linked, comment.id,
                                        commentWithReplies),
                rootComments |-> IF comment.parent_id = NULL
                                 THEN Append(acc.rootComments, comment.id)
                                 ELSE acc.rootComments])

\* first forEach: index every comment with an empty replies list, collect
\* the comments without parent_id
RECURSIVE FirstPass(_, _, _)
FirstPass(data, i, acc) ==
    IF i > Len(data) THEN acc
    ELSE LET comment == data[i]
             commentWithReplies == [row |-> comment, replies |-> <<>>]
         IN FirstPass(data, i + 1,
               [commentMap   |-> MapSet(acc.commentMap, comment.id,
                                        commentWithReplies),
                rootComments |-> IF comment.parent_id = NULL
                                 THEN Append(acc.rootComments, comment.id)
                                 ELSE acc.rootComments])

\* SecondPass with unshift in place of push: replies in reverse order
RECURSIVE SecondPassUnshift(_, _, _)
SecondPassUnshift(data, i, acc) ==
    IF i > Len(data) THEN acc
    ELSE LET comment == data[i]
         IN SecondPassUnshift(data, i + 1,
               IF comment.parent_id # NULL
                  /\ comment.parent_id \in DOMAIN acc.commentMap
               THEN [acc EXCEPT !.commentMap[comment.parent_id].replies =
                                    <<comment.id>> \o @]
               ELSE acc)

\* SecondPass that keeps a comment whose parent is not in the map as a root
RECURSIVE SecondPassOrphanRoot(_, _, _)
SecondPassOrphanRoot(data, i, acc) ==
    IF i > Len(data) THEN acc
    ELSE LET comment == data[i]
         IN SecondPassOrphanRoot(data, i + 1,
               IF comment.parent_id = NULL THEN acc
               ELSE IF comment.parent_id \in DOMAIN acc.commentMap
               THEN [acc EXCEPT !.commentMap[comment.parent_id].replies =
                                    Append(@, comment.id)]
               ELSE [acc EXCEPT !.rootComments = Append(@, comment.id)])

\* SecondPass that nests one level only: a reply to a reply is not attached
RECURSIVE SecondPassOneLevel(_, _, _)
SecondPassOneLevel(data, i, acc) ==
    IF i > Len(data) THEN acc
    ELSE LET comment == data[i]
         IN SecondPassOneLevel(data, i + 1,
               IF comment.parent_id # NULL
                  /\ comment.parent_id \in DOMAIN acc.commentMap
                  /\ acc.commentMap[comment.parent_id].row.parent_id = NULL
               THEN [acc EXCEPT !.commentMap[comment.parent_id].replies =
                                    Append(@, comment.id)]
               ELSE acc)

\* second forEach: push every comment with a parent_id onto the replies of
\* its parent, when the parent is in the map
RECURSIVE SecondPass(_, _, _)
SecondPass(data, i, acc) ==
    IF i > Len(data) THEN acc
    ELSE LET comment == data[i]
         IN SecondPass(data, i + 1,
               IF comment.parent_id # NULL
                  /\ comment.parent_id \in DOMAIN acc.commentMap
               THEN [acc EXCEPT !.commentMap[comment.parent_id].replies =
                                    Append(@, comment.id)]
               ELSE acc)

BuildTree(data) == SecondPass(data, 1, FirstPass(data, 1, EmptyTree))

----------------------------------------------------------------------------
(* State *)

VARIABLES
    comments,       \* table comments: a set of rows
    comment_likes,  \* table comment_likes: a set of rows
    nextId,         \* comment ids handed out so far (gen_random_uuid, now())
    nextLikeId,     \* comment_likes ids handed out so far
    session,        \* per browser: the user supabase.auth.getUser() returns
    user,           \* per browser: the user of useAuth() the component sees
    tree,           \* per browser: state `comments` of useComments
    loading,        \* per browser: state `loading` of useComments
    error,          \* per browser: state `error` of useComments
    tasks,          \* the calls of the hook in flight
    mounted,        \* per browser: CommentSection is mounted
    overlap,        \* the user starts handlers while another one runs
    flat,           \* input of the tree builder (tree specification)
    forest,         \* output of the tree builder (tree specification)
    posts,          \* table posts: a set of rows
    post_likes,     \* table post_likes: a set of rows
    nextPostId,     \* posts ids handed out so far
    nextPostLikeId, \* post_likes ids handed out so far
    usePosts,       \* per browser: the state of hook usePosts of the page
    homePage,       \* per browser: searchQuery, selectedCategory of HomePage
    page            \* per browser: the page shown

storeVars  == <<comments, comment_likes, nextId, nextLikeId>>
clientVars == <<session, user, tree, loading, error, tasks, mounted>>
postVars   == <<posts, post_likes, nextPostId, nextPostLikeId, usePosts,
               homePage, page>>
\* what the calls of useComments leave as it is
pureVars   == <<overlap, flat, forest, postVars>>
\* what the calls of usePosts leave as it is
commentVars == <<storeVars, tree, loading, error, mounted, overlap, flat,
                 forest>>
vars == <<comments, comment_likes, nextId, nextLikeId, session, user, tree,
          loading, error, tasks, mounted, overlap, flat, forest, posts,
          post_likes, nextPostId, nextPostLikeId, usePosts, homePage, page>>

----------------------------------------------------------------------------
(* The store: schema, constraints, policies and triggers *)

CommentIds(tbl) == {r.id : r \in tbl}

Row(tbl, id) == CHOOSE r \in tbl : r.id = id

\* Cascade without ON DELETE CASCADE on parent_id: only the rows named
CascadeNone(tbl, ids) == ids

\* the comments whose parent_id chain leads to one of the comments in ids:
\* what ON DELETE CASCADE of comments.parent_id removes with them
RECURSIVE Cascade(_, _)
Cascade(tbl, ids) ==
    LET more == {r.id : r \in {x \in tbl : x.parent_id \in ids}} \ ids
    IN IF more = {} THEN ids ELSE Cascade(tbl, ids \cup more)

\* InsertCommentOk without the foreign key of parent_id
InsertCommentOkNoForeignKey(uid, author_id, parent_id) ==
    /\ uid # NoUser
    /\ uid = author_id

\* INSERT INTO comments, as the role of the request (uid = auth.uid()).
\* Policy "Authenticated users can create comments", then the foreign key
\* of parent_id; id, likes_count and created_at take their defaults.
InsertCommentOk(uid, author_id, parent_id) ==
    /\ uid # NoUser
    /\ uid = author_id
    /\ parent_id = NULL \/ parent_id \in CommentIds(comments)

NewComment(post_id, author_id, parent_id, content) ==
    [id |-> nextId + 1, post_id |-> post_id, author_id |-> author_id,
     parent_id |-> parent_id, content |-> content, likes_count |-> 0,
     created_at |-> nextId + 1]

\* DELETE FROM comments WHERE id = ..., as the role of the request.
\* Policy "Users can delete their own comments" filters the rows the
\* statement sees; a statement that sees no row deletes nothing and is no
\* error.  The deleted rows take their replies and their likes with them.
DeletedComments(uid, id) ==
    LET visible == {r.id : r \in {x \in comments :
                        x.id = id /\ uid # NoUser /\ uid = x.author_id}}
    IN IF visible = {} THEN {} ELSE Cascade(comments, visible)

CommentsAfterDelete(gone) == {r \in comments : r.id \notin gone}

LikesAfterCommentDelete(gone) ==
    {l \in comment_likes : l.comment_id \notin gone}

\* update_comment_likes_count with the branches of TG_OP exchanged: an
\* INSERT lowers the count and a DELETE raises it
update_comment_likes_count_Swapped(tbl, uid, comment_id, delta) ==
    {IF r.id = comment_id /\ uid # NoUser /\ uid = r.author_id
     THEN [r EXCEPT !.likes_count = @ - delta] ELSE r : r \in tbl}

\* update_comment_likes_count: UPDATE comments SET likes_count = likes_count
\* + delta WHERE id = comment_id.  The function is not SECURITY DEFINER, so
\* the UPDATE runs as the role of the request and policy "Users can update
\* their own comments" filters the rows it sees.
update_comment_likes_count(tbl, uid, comment_id, delta) ==
    {IF r.id = comment_id /\ uid # NoUser /\ uid = r.author_id
     THEN [r EXCEPT !.likes_count = @ + delta] ELSE r : r \in tbl}

\* InsertLikeOk without UNIQUE(comment_id, user_id)
InsertLikeOkNoUnique(uid, comment_id, user_id) ==
    /\ uid # NoUser
    /\ uid = user_id
    /\ comment_id \in CommentIds(comments)

\* INSERT INTO comment_likes: policy "Authenticated users can like
\* comments", foreign key of comment_id, UNIQUE(comment_id, user_id)
InsertLikeOk(uid, comment_id, user_id) ==
    /\ uid # NoUser
    /\ uid = user_id
    /\ comment_id \in CommentIds(comments)
    /\ ~ \E l \in comment_likes :
            l.comment_id = comment_id /\ l.user_id = user_id

\* DELETE FROM comment_likes WHERE id = ...: policy "Users can remove their
\* own comment likes" filters the rows the statement sees
DeletedLikes(uid, id) ==
    {l \in comment_likes : l.id = id /\ uid # NoUser /\ uid = l.user_id}

\* SELECT id FROM comment_likes WHERE comment_id = ... AND user_id = ...
\* (.single(): the row, or null when there is none)
SelectLike(comment_id, user_id) ==
    LET found == {l \in comment_likes :
                    l.comment_id = comment_id /\ l.user_id = user_id}
    IN IF found = {} THEN NULL ELSE (CHOOSE l \in found : TRUE).id

\* ORDER BY created_at ASC
RECURSIVE OrderByCreatedAt(_)
OrderByCreatedAt(rows) ==
    IF rows = {} THEN <<>>
    ELSE LET first == CHOOSE r \in rows :
                        \A q \in rows : r.created_at <= q.created_at
         IN <<first>> \o OrderByCreatedAt(rows \ {first})

\* SELECT * FROM comments WHERE post_id = ... ORDER BY created_at ASC
SelectComments(post_id) ==
    OrderByCreatedAt({r \in comments : r.post_id = post_id})

----------------------------------------------------------------------------
(* The store: posts and post_likes *)

PostId(n) == "p" \o ToString(n)

PostIds(tbl) == {r.id : r \in tbl}

\* INSERT INTO posts, as the role of the request: policy "Authenticated
\* users can create posts", then UNIQUE of slug
InsertPostOk(uid, author_id, slug) ==
    /\ uid # NoUser
    /\ uid = author_id
    /\ slug \notin {r.slug : r \in posts}

\* the row of an insert: id, published, likes_count and created_at take
\* their defaults
NewPost(author_id, title, content, category) ==
    [id |-> PostId(nextPostId + 1), title |-> title, content |-> content,
     author_id |-> author_id, category |-> category, slug |-> SlugOf(title),
     published |-> TRUE, likes_count |-> 0, created_at |-> nextPostId + 1]

\* ORDER BY created_at DESC
RECURSIVE OrderByCreatedAtDesc(_)
OrderByCreatedAtDesc(rows) ==
    IF rows = {} THEN <<>>
    ELSE LET first == CHOOSE r \in rows :
                        \A q \in rows : r.created_at >= q.created_at
         IN <<first>> \o OrderByCreatedAtDesc(rows \ {first})

\* the query of fetchPosts as the role of the request: the SELECT policies
\* of posts, published = true, the or-filter of the search text when
\* there is one, newest first.  The filter on categories.slug is a filter
\* of the embedded resource: it empties `categories` of the posts of
\* another category and leaves the posts in the answer.
SelectPosts(uid, searchQuery, categorySlug) ==
    LET visible == {r \in posts :
                       r.published \/ (uid # NoUser /\ uid = r.author_id)}
        found   == {r \in visible :
                       /\ r.published
                       /\ \/ searchQuery = <<>>
                          \/ ILike(r.title, searchQuery)
                          \/ ILike(r.content, searchQuery)}
        ordered == OrderByCreatedAtDesc(found)
    IN [k \in DOMAIN ordered |->
          [post |-> ordered[k],
           categories |->
              IF categorySlug # NoCategory
                 /\ ordered[k].category # categorySlug
              THEN NoCategory ELSE ordered[k].category]]

\* update_post_likes_count: UPDATE posts SET likes_count = likes_count +
\* delta WHERE id = post_id.  The function is not SECURITY DEFINER, so the
\* UPDATE runs as the role of the request and policy "Users can update
\* their own posts" filters the rows it sees.
update_post_likes_count(tbl, uid, post_id, delta) ==
    {IF r.id = post_id /\ uid # NoUser /\ uid = r.author_id
     THEN [r EXCEPT !.likes_count = @ + delta] ELSE r : r \in tbl}

\* InsertPostLikeOk without UNIQUE(post_id, user_id)
InsertPostLikeOkNoUnique(uid, post_id, user_id) ==
    /\ uid # NoUser
    /\ uid = user_id
    /\ post_id \in PostIds(posts)

\* INSERT INTO post_likes: policy "Authenticated users can like posts",
\* foreign key of post_id, UNIQUE(post_id, user_id)
InsertPostLikeOk(uid, post_id, user_id) ==
    /\ uid # NoUser
    /\ uid = user_id
    /\ post_id \in PostIds(posts)
    /\ ~ \E l \in post_likes : l.post_id = post_id /\ l.user_id = user_id

\* DELETE FROM post_likes WHERE id = ...: policy "Users can remove their
\* own likes" filters the rows the statement sees
DeletedPostLikes(uid, id) ==
    {l \in post_likes : l.id = id /\ uid # NoUser /\ uid = l.user_id}

\* SELECT id FROM post_likes WHERE post_id = ... AND user_id = ...
\* (.single(): the row, or null when there is none)
SelectPostLike(post_id, user_id) ==
    LET found == {l \in post_likes :
                    l.post_id = post_id /\ l.user_id = user_id}
    IN IF found = {} THEN NULL ELSE (CHOOSE l \in found : TRUE).id

----------------------------------------------------------------------------
(* The client: hook useComments *)

NotAuthenticated == "Not authenticated"
StoreError       == "StoreError"
FailedToLoad     == "Failed to load comments"

Slots == 1..MaxTasks

NoData == [error |-> FALSE, rows |-> <<>>]

\* how a handler ends: it returns before it calls the hook, the hook call
\* returns, or the hook call throws (the message)
Ignored  == "ignored"
Returned == "returned"

\* A slot holds one running handler: op and pc say where it is, client, arg
\* (the comment id given), content, uid (userData.user) and existingLike
\* are its arguments and locals, data is the answer to its query.  What it
\* did is recorded in wrote (a write request was sent), rejected (the store
\* answered the write with an error), applied (the write changed a table)
\* and fetched (fetchComments was called).  A call of usePosts has the post
\* id given (post), the title of the post to create, the arguments of
\* its fetchPosts (query), and latest: no fetchPosts was called after its
\* own.
IdleTask ==
    [op |-> "idle", client |-> "c1", pc |-> "idle", uid |-> NoUser,
     arg |-> NULL, content |-> <<>>, existingLike |-> NULL, data |-> NoData,
     outcome |-> "none", wrote |-> FALSE, rejected |-> FALSE,
     applied |-> FALSE, fetched |-> FALSE,
     post |-> "", title |-> <<>>, query |-> NoQuery, latest |-> FALSE]

NewTask(op, c, pc, arg, content) ==
    [IdleTask EXCEPT !.op = op, !.client = c, !.pc = pc, !.arg = arg,
                     !.content = content]

\* A handler that has ended returns to the event loop in the same turn as
\* its last continuation: nothing else runs before Return.
NoneDone == \A t \in Slots : tasks[t].pc # "done"

\* no handler and no fetch is running
Quiet == \A t \in Slots : tasks[t].op = "idle"

\* an event starts a handler; unless overlap is set, the user waits for
\* the handler before to return
CanStart == NoneDone /\ (overlap \/ Quiet)

\* calls start in the lowest free slot
FreeSlot(t) ==
    /\ tasks[t].op = "idle"
    /\ \A u \in Slots : u < t => tasks[u].op # "idle"

\* the comments the component renders: CommentItem is rendered for every
\* root comment and, recursively, for every reply
RECURSIVE ReachableFrom(_, _)
ReachableFrom(tr, ids) ==
    LET more == UNION {{tr.commentMap[i].replies[k] :
                          k \in DOMAIN tr.commentMap[i].replies} : i \in ids}
                \ ids
    IN IF more = {} THEN ids ELSE ReachableFrom(tr, ids \cup more)

RootIds(tr) == {tr.rootComments[k] : k \in DOMAIN tr.rootComments}

RenderedIds(tr) == ReachableFrom(tr, RootIds(tr))

\* setComments(rootComments): the state holds the root objects and what
\* they reference
Rendered(tr) ==
    [commentMap   |-> [i \in RenderedIds(tr) |-> tr.commentMap[i]],
     rootComments |-> tr.rootComments]

\* Every request has an outcome ok: FALSE when the transport loses it, and
\* then the store does nothing and the client gets an error.

\* handlers that may still insert a row
PendingCreates ==
    Cardinality({t \in Slots : tasks[t].op = "create"
                               /\ tasks[t].pc \in {"getUser", "insert"}})
PendingLikes ==
    Cardinality({t \in Slots :
        /\ tasks[t].op = "like"
        /\ \/ tasks[t].pc \in {"getUser", "selectLike"}
           \/ tasks[t].pc = "writeLike" /\ tasks[t].existingLike = NULL})

RowsLeft ==
    nextId + PendingCreates + nextLikeId + PendingLikes < MaxRows

\* CallFetchComments that takes the early return of fetchComments
CallFetchCommentsSkipped(t, task) ==
    /\ UNCHANGED loading
    /\ tasks' = [tasks EXCEPT ![t] =
                    IF task.op = "fetch" THEN IdleTask
                    ELSE [task EXCEPT !.pc = "done", !.outcome = Returned]]

\* fetchComments up to its await: setLoading(true) and the query is sent;
\* task is the record of the call that makes it
CallFetchComments(t, task) ==
    /\ loading' = [loading EXCEPT ![task.client] = TRUE]
    /\ tasks' = [tasks EXCEPT ![t] =
                    [task EXCEPT !.pc = "select", !.fetched = TRUE]]

\* the call throws: its catch logs and rethrows
Throw(t, task, e) ==
    tasks' = [tasks EXCEPT ![t] = [task EXCEPT !.pc = "done", !.outcome = e]]

----------------------------------------------------------------------------
(* Authentication (AuthPage, Header.handleSignOut, useAuth) *)

SignOut(c) ==
    /\ NoneDone
    /\ session[c] # NoUser
    /\ session' = [session EXCEPT ![c] = NoUser]
    /\ UNCHANGED <<storeVars, user, tree, loading, error, tasks,
                   mounted, pureVars>>

\* AuthPage.onSubmit: signIn, then the application shows the user
SignIn(c, u) ==
    /\ NoneDone
    /\ session[c] = NoUser
    /\ session' = [session EXCEPT ![c] = u]
    /\ user' = [user EXCEPT ![c] = u]
    /\ UNCHANGED <<storeVars, tree, loading, error, tasks,
                   mounted, pureVars>>

\* the auth state listener of useAuth delivers the new session
AuthStateChange(c) ==
    /\ NoneDone
    /\ user[c] # session[c]
    /\ user' = [user EXCEPT ![c] = session[c]]
    /\ UNCHANGED <<storeVars, session, tree, loading, error, tasks,
                   mounted, pureVars>>

----------------------------------------------------------------------------
(* Component CommentSection *)

\* useEffect of useComments on mount: postId is set, fetchComments();
\* CommentSection is part of the page of a post
Mount(c) ==
    /\ NoneDone
    /\ page[c] = "post"
    /\ ~mounted[c]
    /\ mounted' = [mounted EXCEPT ![c] = TRUE]
    /\ \E t \in Slots :
         /\ FreeSlot(t)
         /\ CallFetchComments(t, NewTask("fetch", c, "idle", NULL, <<>>))
    /\ UNCHANGED <<storeVars, session, user, tree, error, pureVars>>

\* HandleSubmit with `!newComment` in place of `!newComment.trim()`
HandleSubmitNoTrim(c, parentId, content) ==
    \E t \in Slots :
       /\ FreeSlot(t)
       /\ IF content = <<>> \/ user[c] = NoUser
          THEN tasks' = [tasks EXCEPT ![t] =
                  [NewTask("create", c, "done", parentId, content)
                      EXCEPT !.outcome = Ignored]]
          ELSE /\ nextId + PendingCreates < MaxComments
               /\ RowsLeft
               /\ tasks' = [tasks EXCEPT ![t] =
                      NewTask("create", c, "getUser", parentId, content)]

\* HandleSubmit that tests the user only
HandleSubmitNoCheck(c, parentId, content) ==
    \E t \in Slots :
       /\ FreeSlot(t)
       /\ IF user[c] = NoUser
          THEN tasks' = [tasks EXCEPT ![t] =
                  [NewTask("create", c, "done", parentId, content)
                      EXCEPT !.outcome = Ignored]]
          ELSE /\ nextId + PendingCreates < MaxComments
               /\ RowsLeft
               /\ tasks' = [tasks EXCEPT ![t] =
                      NewTask("create", c, "getUser", parentId, content)]

\* HandleSubmit of a form that is locked while a createComment call of the
\* component is running
HandleSubmitSerialized(c, parentId, content) ==
    \E t \in Slots :
       /\ FreeSlot(t)
       /\ IF \/ EmptyAfterTrim(content) \/ user[c] = NoUser
             \/ \E u \in Slots : tasks[u].op = "create" /\ tasks[u].client = c
          THEN tasks' = [tasks EXCEPT ![t] =
                  [NewTask("create", c, "done", parentId, content)
                      EXCEPT !.outcome = Ignored]]
          ELSE /\ nextId + PendingCreates < MaxComments
               /\ RowsLeft
               /\ tasks' = [tasks EXCEPT ![t] =
                      NewTask("create", c, "getUser", parentId, content)]

\* handleSubmitComment (parentId = NULL) and handleSubmitReply
HandleSubmit(c, parentId, content) ==
    \E t \in Slots :
       /\ FreeSlot(t)
       /\ IF EmptyAfterTrim(content) \/ user[c] = NoUser
          THEN tasks' = [tasks EXCEPT ![t] =
                  [NewTask("create", c, "done", parentId, content)
                      EXCEPT !.outcome = Ignored]]
          ELSE /\ nextId + PendingCreates < MaxComments
               /\ RowsLeft
               /\ tasks' = [tasks EXCEPT ![t] =
                      NewTask("create", c, "getUser", parentId, content)]

\* the comment form is rendered when user is set
SubmitComment(c, content) ==
    /\ CanStart
    /\ mounted[c]
    /\ user[c] # NoUser
    /\ HandleSubmit(c, NULL, content)
    /\ UNCHANGED <<storeVars, session, user, tree, loading, error,
                   mounted, pureVars>>

\* SubmitReply with the Reply button on every displayed comment
SubmitReplyAnyLevel(c, parentId, content) ==
    /\ CanStart
    /\ mounted[c]
    /\ ~loading[c]
    /\ parentId \in DOMAIN tree[c].commentMap
    /\ HandleSubmit(c, parentId, content)
    /\ UNCHANGED <<storeVars, session, user, tree, loading, error,
                   mounted, pureVars>>

\* the reply form is rendered under the root comment whose Reply button was
\* clicked, and the list is rendered when loading is false
SubmitReply(c, parentId, content) ==
    /\ CanStart
    /\ mounted[c]
    /\ ~loading[c]
    /\ parentId \in RootIds(tree[c])
    /\ HandleSubmit(c, parentId, content)
    /\ UNCHANGED <<storeVars, session, user, tree, loading, error,
                   mounted, pureVars>>

\* handleDeleteComment: the Delete button is rendered on the comments of
\* the user; deleteComment sends its request at once
ClickDelete(c, id) ==
    /\ CanStart
    /\ mounted[c]
    /\ ~loading[c]
    /\ id \in DOMAIN tree[c].commentMap
    /\ user[c] = tree[c].commentMap[id].row.author_id
    /\ \E t \in Slots :
         /\ FreeSlot(t)
         /\ tasks' = [tasks EXCEPT ![t] =
                NewTask("delete", c, "delete", id, <<>>)]
    /\ UNCHANGED <<storeVars, session, user, tree, loading, error,
                   mounted, pureVars>>

\* handleToggleLike: the like button is enabled when user is set
ClickLike(c, id) ==
    /\ CanStart
    /\ mounted[c]
    /\ ~loading[c]
    /\ id \in DOMAIN tree[c].commentMap
    /\ user[c] # NoUser
    /\ nextLikeId + PendingLikes < MaxLikes
    /\ RowsLeft
    /\ \E t \in Slots :
         /\ FreeSlot(t)
         /\ tasks' = [tasks EXCEPT ![t] =
                NewTask("like", c, "getUser", id, <<>>)]
    /\ UNCHANGED <<storeVars, session, user, tree, loading, error,
                   mounted, pureVars>>

\* the handler's await returns (or its catch logs the error)
Return(t) ==
    /\ tasks[t].pc = "done"
    /\ tasks' = [tasks EXCEPT ![t] = IdleTask]
    /\ UNCHANGED <<storeVars, session, user, tree, loading, error,
                   mounted, pureVars>>

----------------------------------------------------------------------------
(* Hook useComments: the continuations of its awaits.  A request carries  *)
(* the session the browser has when the store executes it.                *)

\* GetUser without `if (!userData.user) throw`
GetUserNoCheck(t) ==
    LET task == tasks[t]
        c    == task.client
    IN /\ NoneDone
       /\ task.pc = "getUser"
       /\ tasks' = [tasks EXCEPT ![t] =
                  [task EXCEPT !.uid = session[c],
                               !.pc = IF task.op = "create" THEN "insert"
                                      ELSE "selectLike"]]
       /\ UNCHANGED <<storeVars, session, user, tree, loading,
                      error, mounted, pureVars>>

\* await supabase.auth.getUser() of createComment and toggleCommentLike
GetUser(t) ==
    LET task == tasks[t]
        c    == task.client
    IN /\ NoneDone
       /\ task.pc = "getUser"
       /\ IF session[c] = NoUser
          THEN Throw(t, task, NotAuthenticated)
          ELSE tasks' = [tasks EXCEPT ![t] =
                  [task EXCEPT !.uid = session[c],
                               !.pc = IF task.op = "create" THEN "insert"
                                      ELSE "selectLike"]]
       /\ UNCHANGED <<storeVars, session, user, tree, loading,
                      error, mounted, pureVars>>

\* CreateCommentInsert without `if (error) throw error`: a rejected insert
\* is followed by fetchComments() like an accepted one
CreateCommentInsertNoThrow(t) ==
    LET task == tasks[t]
        c    == task.client
        sent == [task EXCEPT !.wrote = TRUE]
    IN /\ NoneDone
       /\ task.op = "create" /\ task.pc = "insert"
       /\ \E ok \in BOOLEAN :
            /\ IF ok /\ InsertCommentOk(session[c], task.uid, task.arg)
               THEN /\ comments' = comments \cup
                          {NewComment(PostOf(c), task.uid, task.arg,
                                      task.content)}
                    /\ nextId' = nextId + 1
                    /\ CallFetchComments(t, [sent EXCEPT !.applied = TRUE])
               ELSE /\ CallFetchComments(t, [sent EXCEPT !.rejected = TRUE])
                    /\ UNCHANGED <<comments, nextId>>
       /\ UNCHANGED <<comment_likes, nextLikeId, session, user, tree, error,
                      mounted, pureVars>>

\* createComment: the insert, then `if (error) throw error` and
\* fetchComments()
CreateCommentInsert(t) ==
    LET task == tasks[t]
        c    == task.client
        sent == [task EXCEPT !.wrote = TRUE]
    IN /\ NoneDone
       /\ task.op = "create" /\ task.pc = "insert"
       /\ \E ok \in BOOLEAN :
            /\ IF ok /\ InsertCommentOk(session[c], task.uid, task.arg)
               THEN /\ comments' = comments \cup
                          {NewComment(PostOf(c), task.uid, task.arg,
                                      task.content)}
                    /\ nextId' = nextId + 1
                    /\ CallFetchComments(t, [sent EXCEPT !.applied = TRUE])
               ELSE /\ Throw(t, [sent EXCEPT !.rejected = TRUE], StoreError)
                    /\ UNCHANGED <<comments, nextId, loading>>
       /\ UNCHANGED <<comment_likes, nextLikeId, session, user, tree, error,
                      mounted, pureVars>>

\* DeleteCommentDelete without `await fetchComments()`
DeleteCommentDeleteNoFetch(t) ==
    LET task == tasks[t]
        c    == task.client
        sent == [task EXCEPT !.wrote = TRUE]
        gone == DeletedComments(session[c], task.arg)
    IN /\ NoneDone
       /\ task.op = "delete" /\ task.pc = "delete"
       /\ \E ok \in BOOLEAN :
            /\ IF ok
               THEN /\ comments' = CommentsAfterDelete(gone)
                    /\ comment_likes' = LikesAfterCommentDelete(gone)
                    /\ tasks' = [tasks EXCEPT ![t] =
                          [sent EXCEPT !.applied = (gone # {}),
                                       !.pc = "done", !.outcome = Returned]]
                    /\ UNCHANGED loading
               ELSE /\ Throw(t, [sent EXCEPT !.rejected = TRUE], StoreError)
                    /\ UNCHANGED <<comments, comment_likes, loading>>
       /\ UNCHANGED <<nextId, nextLikeId, session, user, tree, error,
                      mounted, pureVars>>

\* deleteComment: the delete, then `if (error) throw error` and
\* fetchComments()
DeleteCommentDelete(t) ==
    LET task == tasks[t]
        c    == task.client
        sent == [task EXCEPT !.wrote = TRUE]
        gone == DeletedComments(session[c], task.arg)
    IN /\ NoneDone
       /\ task.op = "delete" /\ task.pc = "delete"
       /\ \E ok \in BOOLEAN :
            /\ IF ok
               THEN /\ comments' = CommentsAfterDelete(gone)
                    /\ comment_likes' = LikesAfterCommentDelete(gone)
                    /\ CallFetchComments(t,
                          [sent EXCEPT !.applied = (gone # {})])
               ELSE /\ Throw(t, [sent EXCEPT !.rejected = TRUE], StoreError)
                    /\ UNCHANGED <<comments, comment_likes, loading>>
       /\ UNCHANGED <<nextId, nextLikeId, session, user, tree, error,
                      mounted, pureVars>>

\* toggleCommentLike: the lookup of the user's like; only data is read
ToggleSelectLike(t) ==
    LET task == tasks[t]
    IN /\ NoneDone
       /\ task.op = "like" /\ task.pc = "selectLike"
       /\ \E ok \in BOOLEAN :
            /\ tasks' = [tasks EXCEPT ![t] =
                  [task EXCEPT !.pc = "writeLike",
                               !.existingLike =
                                   IF ok THEN SelectLike(task.arg, task.uid)
                                   ELSE NULL]]
       /\ UNCHANGED <<storeVars, session, user, tree, loading, error,
                      mounted, pureVars>>

\* toggleCommentLike: delete the like found or insert one; the result of
\* the write is not looked at; then fetchComments()
ToggleWriteLike(t) ==
    LET task == tasks[t]
        c    == task.client
        uid  == session[c]
        sent == [task EXCEPT !.wrote = TRUE]
        gone == DeletedLikes(uid, task.existingLike)
    IN /\ NoneDone
       /\ task.op = "like" /\ task.pc = "writeLike"
       /\ \E ok \in BOOLEAN :
            /\ IF ~ok
               THEN /\ CallFetchComments(t, [sent EXCEPT !.rejected = TRUE])
                    /\ UNCHANGED <<comments, comment_likes, nextLikeId>>
               ELSE IF task.existingLike # NULL
               THEN /\ comment_likes' = comment_likes \ gone
                    /\ comments' =
                          IF gone = {} THEN comments
                          ELSE update_comment_likes_count(comments, uid,
                                                          task.arg, -1)
                    /\ CallFetchComments(t,
                          [sent EXCEPT !.applied = (gone # {})])
                    /\ UNCHANGED nextLikeId
               ELSE IF InsertLikeOk(uid, task.arg, task.uid)
               THEN /\ comment_likes' = comment_likes \cup
                          {[id |-> nextLikeId + 1, comment_id |-> task.arg,
                            user_id |-> task.uid]}
                    /\ nextLikeId' = nextLikeId + 1
                    /\ comments' = update_comment_likes_count(comments, uid,
                                                              task.arg, 1)
                    /\ CallFetchComments(t, [sent EXCEPT !.applied = TRUE])
               ELSE /\ CallFetchComments(t, [sent EXCEPT !.rejected = TRUE])
                    /\ UNCHANGED <<comments, comment_likes, nextLikeId>>
       /\ UNCHANGED <<nextId, session, user, tree, error, mounted,
                      pureVars>>

\* fetchComments: the store answers the query
FetchSelect(t) ==
    LET task == tasks[t]
    IN /\ NoneDone
       /\ task.pc = "select"
       /\ \E ok \in BOOLEAN :
            /\ tasks' = [tasks EXCEPT ![t] =
                  [task EXCEPT !.pc = "response",
                               !.data = IF ok
                                   THEN [error |-> FALSE,
                                         rows |-> SelectComments(
                                                     PostOf(task.client))]
                                   ELSE [error |-> TRUE, rows |-> <<>>]]]
       /\ UNCHANGED <<storeVars, session, user, tree, loading, error,
                      mounted, pureVars>>

\* FetchResponse that keeps commentMap and rootComments across fetches: the
\* passes add the rows fetched to what the tree held
FetchResponseMerge(t) ==
    LET task == tasks[t]
        c    == task.client
    IN /\ NoneDone
       /\ task.pc = "response"
       /\ IF task.data.error
          THEN /\ error' = [error EXCEPT ![c] = FailedToLoad]
               /\ UNCHANGED tree
          ELSE /\ tree' = [tree EXCEPT ![c] =
                              Rendered(SecondPass(task.data.rows, 1,
                                 FirstPass(task.data.rows, 1, tree[c])))]
               /\ UNCHANGED error
       /\ loading' = [loading EXCEPT ![c] = FALSE]
       /\ tasks' = [tasks EXCEPT ![t] =
              IF task.op = "fetch" THEN IdleTask
              ELSE [task EXCEPT !.pc = "done", !.data = NoData,
                                !.outcome = Returned]]
       /\ UNCHANGED <<storeVars, session, user, mounted, pureVars>>

\* FetchResponse that drops an answer which is not the current comment set
FetchResponseDropStale(t) ==
    LET task == tasks[t]
        c    == task.client
    IN /\ NoneDone
       /\ task.pc = "response"
       /\ IF task.data.error
          THEN /\ error' = [error EXCEPT ![c] = FailedToLoad]
               /\ UNCHANGED tree
          ELSE /\ IF task.data.rows = SelectComments(PostOf(c))
                  THEN tree' = [tree EXCEPT ![c] =
                                   Rendered(BuildTree(task.data.rows))]
                  ELSE UNCHANGED tree
               /\ UNCHANGED error
       /\ loading' = [loading EXCEPT ![c] = FALSE]
       /\ tasks' = [tasks EXCEPT ![t] =
              IF task.op = "fetch" THEN IdleTask
              ELSE [task EXCEPT !.pc = "done", !.data = NoData,
                                !.outcome = Returned]]
       /\ UNCHANGED <<storeVars, session, user, mounted, pureVars>>

\* FetchResponse whose catch also does setComments([])
FetchResponseClearOnError(t) ==
    LET task == tasks[t]
        c    == task.client
    IN /\ NoneDone
       /\ task.pc = "response"
       /\ IF task.data.error
          THEN /\ error' = [error EXCEPT ![c] = FailedToLoad]
               /\ tree' = [tree EXCEPT ![c] = EmptyTree]
          ELSE /\ tree' = [tree EXCEPT ![c] =
                              Rendered(BuildTree(task.data.rows))]
               /\ UNCHANGED error
       /\ loading' = [loading EXCEPT ![c] = FALSE]
       /\ tasks' = [tasks EXCEPT ![t] =
              IF task.op = "fetch" THEN IdleTask
              ELSE [task EXCEPT !.pc = "done", !.data = NoData,
                                !.outcome = Returned]]
       /\ UNCHANGED <<storeVars, session, user, mounted, pureVars>>

\* fetchComments after its await: `if (error) throw error`, the tree,
\* setComments; catch: setError; finally: setLoading(false).  The call
\* that awaited fetchComments() then returns.
FetchResponse(t) ==
    LET task == tasks[t]
        c    == task.client
    IN /\ NoneDone
       /\ task.pc = "response"
       /\ IF task.data.error
          THEN /\ error' = [error EXCEPT ![c] = FailedToLoad]
               /\ UNCHANGED tree
          ELSE /\ tree' = [tree EXCEPT ![c] =
                              Rendered(BuildTree(task.data.rows))]
               /\ UNCHANGED error
       /\ loading' = [loading EXCEPT ![c] = FALSE]
       /\ tasks' = [tasks EXCEPT ![t] =
              IF task.op = "fetch" THEN IdleTask
              ELSE [task EXCEPT !.pc = "done", !.data = NoData,
                                !.outcome = Returned]]
       /\ UNCHANGED <<storeVars, session, user, mounted, pureVars>>

----------------------------------------------------------------------------
(* Hook usePosts and the pages that call it: HomePage ("home", with the   *)
(* post cards), CreatePostPage ("create") and PostPage ("post").  Every   *)
(* page has a usePosts of its own.                                        *)

FailedToLoadPosts == "Failed to load posts"
MustBeSignedIn    == "You must be signed in to create a post"

\* useState of usePosts, and what records that its mount effect ran
UsePostsInit ==
    [posts |-> <<>>, loading |-> TRUE, error |-> "none", mounted |-> FALSE]

\* useState of HomePage
HomePageInit == [searchQuery |-> <<>>, selectedCategory |-> NoCategory]

\* the content the post form is given
PostContent == <<"c">>

PendingPostCreates ==
    Cardinality({t \in Slots : tasks[t].op = "createPost"
                               /\ tasks[t].pc \in {"postGetUser",
                                                   "postInsert"}})
PendingPostLikes ==
    Cardinality({t \in Slots :
        /\ tasks[t].op = "toggleLike"
        /\ \/ tasks[t].pc \in {"postGetUser", "postSelectLike"}
           \/ tasks[t].pc = "postWriteLike" /\ tasks[t].existingLike = NULL})

\* the posts the page lists
ListedPostIds(c) ==
    {usePosts[c].posts[k].post.id : k \in DOMAIN usePosts[c].posts}

ClearLatest(ts) == [t \in Slots |-> [ts[t] EXCEPT !.latest = FALSE]]

\* the record of a call once it has called fetchPosts(searchQuery,
\* categorySlug): an empty string is passed as undefined
FetchPostsCall(task, searchQuery, categorySlug) ==
    [task EXCEPT !.pc = "postSelect", !.fetched = TRUE, !.latest = TRUE,
                 !.query = [searchQuery |-> searchQuery,
                            categorySlug |-> categorySlug]]

\* fetchPosts up to its await: setLoading(true) and the query is sent
CallFetchPosts(t, task, searchQuery, categorySlug) ==
    /\ usePosts' = [usePosts EXCEPT ![task.client].loading = TRUE]
    /\ tasks' = [ClearLatest(tasks) EXCEPT ![t] =
                    FetchPostsCall(task, searchQuery, categorySlug)]

\* the mount effect of usePosts calls fetchPosts(); on the home page the
\* effect of HomePage then calls fetchPosts(searchQuery, selectedCategory)
MountPosts(c) ==
    LET call == NewTask("fetchPosts", c, "idle", NULL, <<>>)
    IN /\ NoneDone
       /\ ~usePosts[c].mounted
       /\ usePosts' = [usePosts EXCEPT ![c].mounted = TRUE,
                                       ![c].loading = TRUE]
       /\ \E t \in Slots :
            /\ FreeSlot(t)
            /\ IF page[c] = "home"
               THEN \E u \in Slots :
                      /\ u > t /\ tasks[u].op = "idle"
                      /\ \A v \in Slots :
                            (t < v /\ v < u) => tasks[v].op # "idle"
                      /\ tasks' = [ClearLatest(tasks) EXCEPT
                            ![t] = [FetchPostsCall(call, <<>>, NoCategory)
                                       EXCEPT !.latest = FALSE],
                            ![u] = FetchPostsCall(call,
                                      homePage[c].searchQuery,
                                      homePage[c].selectedCategory)]
               ELSE tasks' = [ClearLatest(tasks) EXCEPT
                            ![t] = FetchPostsCall(call, <<>>, NoCategory)]
       /\ UNCHANGED <<commentVars, session, user, posts, post_likes,
                      nextPostId, nextPostLikeId, homePage, page>>

\* HomePage renders the search form unless the hook has an error
HomeShown(c) ==
    /\ CanStart
    /\ page[c] = "home"
    /\ usePosts[c].mounted
    /\ usePosts[c].error = "none"

\* the search field changes: setSearchQuery, and the effect of HomePage
\* calls fetchPosts
ChangeSearch(c, q) ==
    /\ HomeShown(c)
    /\ q # homePage[c].searchQuery
    /\ homePage' = [homePage EXCEPT ![c].searchQuery = q]
    /\ \E t \in Slots :
         /\ FreeSlot(t)
         /\ CallFetchPosts(t, NewTask("fetchPosts", c, "idle", NULL, <<>>),
                           q, homePage[c].selectedCategory)
    /\ UNCHANGED <<commentVars, session, user, posts, post_likes,
                   nextPostId, nextPostLikeId, page>>

\* the category select changes: setSelectedCategory, and the effect
ChangeCategory(c, slug) ==
    /\ HomeShown(c)
    /\ slug # homePage[c].selectedCategory
    /\ homePage' = [homePage EXCEPT ![c].selectedCategory = slug]
    /\ \E t \in Slots :
         /\ FreeSlot(t)
         /\ CallFetchPosts(t, NewTask("fetchPosts", c, "idle", NULL, <<>>),
                           homePage[c].searchQuery, slug)
    /\ UNCHANGED <<commentVars, session, user, posts, post_likes,
                   nextPostId, nextPostLikeId, page>>

\* clearFilters: both are set to '', and the effect runs when one changed
ClearFilters(c) ==
    /\ HomeShown(c)
    /\ homePage[c] # HomePageInit
    /\ homePage' = [homePage EXCEPT ![c] = HomePageInit]
    /\ \E t \in Slots :
         /\ FreeSlot(t)
         /\ CallFetchPosts(t, NewTask("fetchPosts", c, "idle", NULL, <<>>),
                           <<>>, NoCategory)
    /\ UNCHANGED <<commentVars, session, user, posts, post_likes,
                   nextPostId, nextPostLikeId, page>>

\* handleSearch: the search form is submitted
HandleSearch(c) ==
    /\ HomeShown(c)
    /\ \E t \in Slots :
         /\ FreeSlot(t)
         /\ CallFetchPosts(t, NewTask("fetchPosts", c, "idle", NULL, <<>>),
                           homePage[c].searchQuery,
                           homePage[c].selectedCategory)
    /\ UNCHANGED <<commentVars, session, user, posts, post_likes,
                   nextPostId, nextPostLikeId, homePage, page>>

\* PostCard.handleLikeClick on a listed post (the list is rendered when
\* loading is false) and PostPage.handleToggleLike on the post of the page
ClickPostLike(c, id) ==
    /\ CanStart
    /\ usePosts[c].mounted
    /\ user[c] # NoUser
    /\ \/ /\ page[c] = "home"
          /\ usePosts[c].error = "none" /\ ~usePosts[c].loading
          /\ id \in ListedPostIds(c)
       \/ /\ page[c] = "post"
          /\ id = PostOf(c)
    /\ nextPostLikeId + PendingPostLikes < MaxLikes
    /\ \E t \in Slots :
         /\ FreeSlot(t)
         /\ tasks' = [tasks EXCEPT ![t] =
                [NewTask("toggleLike", c, "postGetUser", NULL, <<>>)
                    EXCEPT !.post = id]]
    /\ UNCHANGED <<commentVars, session, user, postVars>>

\* CreatePostPage.onSubmit: the form is rendered when user is set; the
\* category select is left at "no category"
SubmitPost(c, title) ==
    /\ CanStart
    /\ page[c] = "create"
    /\ usePosts[c].mounted
    /\ user[c] # NoUser
    /\ nextPostId + PendingPostCreates < MaxPosts
    /\ \E t \in Slots :
         /\ FreeSlot(t)
         /\ tasks' = [tasks EXCEPT ![t] =
                [NewTask("createPost", c, "postGetUser", NULL, <<>>)
                    EXCEPT !.title = title]]
    /\ UNCHANGED <<commentVars, session, user, postVars>>

\* PostGetUser without the test of the user
PostGetUserNoCheck(t) ==
    LET task == tasks[t]
        c    == task.client
    IN /\ NoneDone
       /\ task.pc = "postGetUser"
       /\ tasks' = [tasks EXCEPT ![t] =
                  [task EXCEPT !.uid = session[c],
                               !.pc = IF task.op = "createPost"
                                      THEN "postInsert"
                                      ELSE "postSelectLike"]]
       /\ UNCHANGED <<commentVars, session, user, postVars>>

\* await supabase.auth.getUser() of createPost (`if (userError || !user)
\* throw`) and of toggleLike (`if (!userData.user) throw`); a lookup that
\* fails returns an error and no user
PostGetUser(t) ==
    LET task == tasks[t]
        c    == task.client
    IN /\ NoneDone
       /\ task.pc = "postGetUser"
       /\ \E ok \in BOOLEAN :
            IF ~ok \/ session[c] = NoUser
            THEN Throw(t, task, IF task.op = "createPost"
                                THEN MustBeSignedIn ELSE NotAuthenticated)
            ELSE tasks' = [tasks EXCEPT ![t] =
                    [task EXCEPT !.uid = session[c],
                                 !.pc = IF task.op = "createPost"
                                        THEN "postInsert"
                                        ELSE "postSelectLike"]]
       /\ UNCHANGED <<commentVars, session, user, postVars>>

\* createPost: the insert, then `if (error) throw error` and fetchPosts()
CreatePostInsert(t) ==
    LET task == tasks[t]
        c    == task.client
        sent == [task EXCEPT !.wrote = TRUE]
    IN /\ NoneDone
       /\ task.op = "createPost" /\ task.pc = "postInsert"
       /\ \E ok \in BOOLEAN :
            IF ok /\ InsertPostOk(session[c], task.uid, SlugOf(task.title))
            THEN /\ posts' = posts \cup
                       {NewPost(task.uid, task.title, PostContent,
                                NoCategory)}
                 /\ nextPostId' = nextPostId + 1
                 /\ CallFetchPosts(t, [sent EXCEPT !.applied = TRUE],
                                   <<>>, NoCategory)
            ELSE /\ Throw(t, [sent EXCEPT !.rejected = TRUE], StoreError)
                 /\ UNCHANGED <<posts, nextPostId, usePosts>>
       /\ UNCHANGED <<commentVars, session, user, post_likes,
                      nextPostLikeId, homePage, page>>

\* toggleLike: the lookup of the user's like; only data is read
ToggleSelectPostLike(t) ==
    LET task == tasks[t]
    IN /\ NoneDone
       /\ task.op = "toggleLike" /\ task.pc = "postSelectLike"
       /\ \E ok \in BOOLEAN :
            /\ tasks' = [tasks EXCEPT ![t] =
                  [task EXCEPT !.pc = "postWriteLike",
                               !.existingLike =
                                   IF ok
                                   THEN SelectPostLike(task.post, task.uid)
                                   ELSE NULL]]
       /\ UNCHANGED <<commentVars, session, user, postVars>>

\* toggleLike: delete the like found or insert one; the result of the
\* write is not looked at; then fetchPosts()
ToggleWritePostLike(t) ==
    LET task == tasks[t]
        c    == task.client
        uid  == session[c]
        sent == [task EXCEPT !.wrote = TRUE]
        gone == DeletedPostLikes(uid, task.existingLike)
    IN /\ NoneDone
       /\ task.op = "toggleLike" /\ task.pc = "postWriteLike"
       /\ \E ok \in BOOLEAN :
            /\ IF ~ok
               THEN /\ CallFetchPosts(t, [sent EXCEPT !.rejected = TRUE],
                                      <<>>, NoCategory)
                    /\ UNCHANGED <<posts, post_likes, nextPostLikeId>>
               ELSE IF task.existingLike # NULL
               THEN /\ post_likes' = post_likes \ gone
                    /\ posts' =
                          IF gone = {} THEN posts
                          ELSE update_post_likes_count(posts, uid,
                                                       task.post, -1)
                    /\ CallFetchPosts(t,
                          [sent EXCEPT !.applied = (gone # {})],
                          <<>>, NoCategory)
                    /\ UNCHANGED nextPostLikeId
               ELSE IF InsertPostLikeOk(uid, task.post, task.uid)
               THEN /\ post_likes' = post_likes \cup
                          {[id |-> nextPostLikeId + 1, post_id |-> task.post,
                            user_id |-> task.uid]}
                    /\ nextPostLikeId' = nextPostLikeId + 1
                    /\ posts' = update_post_likes_count(posts, uid,
                                                        task.post, 1)
                    /\ CallFetchPosts(t, [sent EXCEPT !.applied = TRUE],
                                      <<>>, NoCategory)
               ELSE /\ CallFetchPosts(t, [sent EXCEPT !.rejected = TRUE],
                                      <<>>, NoCategory)
                    /\ UNCHANGED <<posts, post_likes, nextPostLikeId>>
       /\ UNCHANGED <<commentVars, session, user, nextPostId, homePage,
                      page>>

\* fetchPosts: the store answers the query
FetchPostsSelect(t) ==
    LET task == tasks[t]
    IN /\ NoneDone
       /\ task.pc = "postSelect"
       /\ \E ok \in BOOLEAN :
            /\ tasks' = [tasks EXCEPT ![t] =
                  [task EXCEPT
                     !.pc = "postResponse",
                     !.data = IF ok
                              THEN [error |-> FALSE,
                                    rows |-> SelectPosts(
                                                session[task.client],
                                                task.query.searchQuery,
                                                task.query.categorySlug)]
                              ELSE [error |-> TRUE, rows |-> <<>>]]]
       /\ UNCHANGED <<commentVars, session, user, postVars>>

\* fetchPosts after its await: `if (error) throw error`, setPosts; catch:
\* setError; finally: setLoading(false).  The call that awaited
\* fetchPosts() then returns.
FetchPostsResponse(t) ==
    LET task == tasks[t]
        c    == task.client
    IN /\ NoneDone
       /\ task.pc = "postResponse"
       /\ usePosts' = [usePosts EXCEPT
             ![c].posts = IF task.data.error THEN @ ELSE task.data.rows,
             ![c].error = IF task.data.error THEN FailedToLoadPosts ELSE @,
             ![c].loading = FALSE]
       /\ tasks' = [tasks EXCEPT ![t] =
              IF task.op = "fetchPosts" THEN IdleTask
              ELSE [task EXCEPT !.pc = "done", !.data = NoData,
                                !.outcome = Returned]]
       /\ UNCHANGED <<commentVars, session, user, posts, post_likes,
                      nextPostId, nextPostLikeId, homePage, page>>

----------------------------------------------------------------------------
(* The specification of the comment thread *)

\* the page of a post whose usePosts hook is left out: no posts, no
\* likes of posts
NoPosts ==
    /\ posts = {}
    /\ post_likes = {}
    /\ nextPostId = 0
    /\ nextPostLikeId = 0
    /\ usePosts = [c \in Clients |-> UsePostsInit]
    /\ homePage = [c \in Clients |-> HomePageInit]
    /\ page = [c \in Clients |-> "post"]

\* forest.tree is the tree of the first fetch of the flat set, forest.second
\* the tree of a second fetch that returns the same set
NotBuilt ==
    [built |-> FALSE, tree |-> EmptyTree,
     rebuilt |-> FALSE, second |-> EmptyTree]

Init ==
    /\ comments = {}
    /\ comment_likes = {}
    /\ nextId = 0
    /\ nextLikeId = 0
    /\ session = [c \in Clients |-> NoUser]
    /\ user = [c \in Clients |-> NoUser]
    /\ tree = [c \in Clients |-> EmptyTree]
    /\ loading = [c \in Clients |-> FALSE]
    /\ error = [c \in Clients |-> "none"]
    /\ tasks = [t \in Slots |-> IdleTask]
    /\ mounted = [c \in Clients |-> FALSE]
    /\ NoPosts
    /\ overlap = FALSE
    /\ flat = <<>>
    /\ forest = NotBuilt

Next ==
    \/ \E c \in Clients : SignOut(c)
    \/ \E c \in Clients, u \in Users : SignIn(c, u)
    \/ \E c \in Clients : AuthStateChange(c)
    \/ \E c \in Clients : Mount(c)
    \/ \E c \in Clients, s \in Contents : SubmitComment(c, s)
    \/ \E c \in Clients, p \in 1..MaxComments, s \in Contents :
          SubmitReply(c, p, s)
    \/ \E c \in Clients, i \in 1..MaxComments : ClickDelete(c, i)
    \/ \E c \in Clients, i \in 1..MaxComments : ClickLike(c, i)
    \/ \E t \in Slots : Return(t)
    \/ \E t \in Slots : GetUser(t)
    \/ \E t \in Slots : CreateCommentInsert(t)
    \/ \E t \in Slots : DeleteCommentDelete(t)
    \/ \E t \in Slots : ToggleSelectLike(t)
    \/ \E t \in Slots : ToggleWriteLike(t)
    \/ \E t \in Slots : FetchSelect(t)
    \/ \E t \in Slots : FetchResponse(t)

\* Spec: one browser on the page of a post, whose user starts a handler
\* when the one before has returned (overlap is FALSE).
Spec == Init /\ [][Next]_vars

----------------------------------------------------------------------------
(* The specification of the tree builder: BuildTree applied to every flat *)
(* set of at most MaxFlat comments with unique ids, in ascending           *)
(* created_at order; parent_id is NULL, an id of the set or an id absent  *)
(* from it.                                                               *)

FlatRow(id, parent_id, created_at) ==
    [id |-> id, post_id |-> "p1", author_id |-> "u1", parent_id |-> parent_id,
     content |-> <<"a">>, likes_count |-> 0, created_at |-> created_at]

FlatSets ==
    UNION {{[k \in 1..n |-> FlatRow(f[k][1], f[k][2], k)] :
              f \in {g \in [1..n -> (1..MaxFlat) \X (0..(MaxFlat + 1))] :
                        \A a, b \in 1..n : a # b => g[a][1] # g[b][1]}} :
           n \in 0..MaxFlat}

TreeInit ==
    /\ flat \in FlatSets
    /\ forest = NotBuilt
    /\ comments = {}
    /\ comment_likes = {}
    /\ nextId = 0
    /\ nextLikeId = 0
    /\ session = [c \in Clients |-> NoUser]
    /\ user = [c \in Clients |-> NoUser]
    /\ tree = [c \in Clients |-> EmptyTree]
    /\ loading = [c \in Clients |-> FALSE]
    /\ error = [c \in Clients |-> "none"]
    /\ tasks = [t \in Slots |-> IdleTask]
    /\ mounted = [c \in Clients |-> FALSE]
    /\ NoPosts
    /\ overlap = FALSE

ApplyBuildTree ==
    /\ ~forest.built
    /\ forest' = [forest EXCEPT !.built = TRUE, !.tree = BuildTree(flat)]
    /\ UNCHANGED <<storeVars, clientVars, overlap, flat, postVars>>

\* Rebuild with commentMap and rootComments kept from the call before
RebuildRetained ==
    /\ forest.built /\ ~forest.rebuilt
    /\ forest' = [forest EXCEPT
                     !.rebuilt = TRUE,
                     !.second = SecondPass(flat, 1,
                                   FirstPass(flat, 1, forest.tree))]
    /\ UNCHANGED <<storeVars, clientVars, overlap, flat, postVars>>

\* a second call of fetchComments on the same rows: commentMap and
\* rootComments are new objects in every call, and every node is a copy
\* of its row
Rebuild ==
    /\ forest.built /\ ~forest.rebuilt
    /\ forest' = [forest EXCEPT !.rebuilt = TRUE, !.second = BuildTree(flat)]
    /\ UNCHANGED <<storeVars, clientVars, overlap, flat, postVars>>

TreeNext == ApplyBuildTree \/ Rebuild

TreeSpec == TreeInit /\ [][TreeNext]_vars

----------------------------------------------------------------------------
(* The specification of overlapping calls: the page of a post that has a  *)
(* comment of u1, opened by a signed-in user who does not wait for one     *)
(* handler to return before starting the next (overlap is TRUE); the       *)
(* session stays as it is.                                                 *)

RaceInit ==
    /\ comments = {FlatRow(1, NULL, 1)}
    /\ comment_likes = {}
    /\ nextId = 1
    /\ nextLikeId = 0
    /\ session \in [Clients -> Users]
    /\ user = session
    /\ tree = [c \in Clients |-> EmptyTree]
    /\ loading = [c \in Clients |-> FALSE]
    /\ error = [c \in Clients |-> "none"]
    /\ tasks = [t \in Slots |-> IdleTask]
    /\ mounted = [c \in Clients |-> FALSE]
    /\ NoPosts
    /\ overlap = TRUE
    /\ flat = <<>>
    /\ forest = NotBuilt

RaceNext ==
    \/ \E c \in Clients : Mount(c)
    \/ \E c \in Clients, s \in Contents : SubmitComment(c, s)
    \/ \E c \in Clients, p \in 1..MaxComments, s \in Contents :
          SubmitReply(c, p, s)
    \/ \E c \in Clients, i \in 1..MaxComments : ClickDelete(c, i)
    \/ \E c \in Clients, i \in 1..MaxComments : ClickLike(c, i)
    \/ \E t \in Slots : Return(t)
    \/ \E t \in Slots : GetUser(t)
    \/ \E t \in Slots : CreateCommentInsert(t)
    \/ \E t \in Slots : DeleteCommentDelete(t)
    \/ \E t \in Slots : ToggleSelectLike(t)
    \/ \E t \in Slots : ToggleWriteLike(t)
    \/ \E t \in Slots : FetchSelect(t)
    \/ \E t \in Slots : FetchResponse(t)

RaceSpec == RaceInit /\ [][RaceNext]_vars

----------------------------------------------------------------------------
(* The specification of the pages that use usePosts: the store has a      *)
(* post of u1 with a comment, the browser shows one of the three pages    *)
(* to a user who signed in and does not wait for a handler to return      *)
(* before starting the next.  The session is the one of that user, or it  *)
(* has ended (a sign-out of which the page has not heard yet).            *)

InitialPost ==
    [id |-> PostId(1), title |-> <<"a">>, content |-> PostContent,
     author_id |-> "u1", category |-> "technology", slug |-> <<"a">>,
     published |-> TRUE, likes_count |-> 0, created_at |-> 1]

PostInit ==
    /\ comments = {FlatRow(1, NULL, 1)}
    /\ comment_likes = {}
    /\ nextId = 1
    /\ nextLikeId = 0
    /\ user \in [Clients -> Users]
    /\ session \in [Clients -> Users \cup {NoUser}]
    /\ \A c \in Clients : session[c] \in {user[c], NoUser}
    /\ tree = [c \in Clients |-> EmptyTree]
    /\ loading = [c \in Clients |-> FALSE]
    /\ error = [c \in Clients |-> "none"]
    /\ tasks = [t \in Slots |-> IdleTask]
    /\ mounted = [c \in Clients |-> FALSE]
    /\ overlap = TRUE
    /\ flat = <<>>
    /\ forest = NotBuilt
    /\ posts = {InitialPost}
    /\ post_likes = {}
    /\ nextPostId = 1
    /\ nextPostLikeId = 0
    /\ usePosts = [c \in Clients |-> UsePostsInit]
    /\ homePage = [c \in Clients |-> HomePageInit]
    /\ page \in [Clients -> {"home", "create", "post"}]

PostNext ==
    \/ \E c \in Clients : MountPosts(c)
    \/ \E c \in Clients, q \in Queries : ChangeSearch(c, q)
    \/ \E c \in Clients, g \in CategorySlugs \cup {NoCategory} :
          ChangeCategory(c, g)
    \/ \E c \in Clients : ClearFilters(c)
    \/ \E c \in Clients : HandleSearch(c)
    \/ \E c \in Clients, n \in 1..MaxPosts : ClickPostLike(c, PostId(n))
    \/ \E c \in Clients, s \in Titles : SubmitPost(c, s)
    \/ \E t \in Slots : PostGetUser(t)
    \/ \E t \in Slots : CreatePostInsert(t)
    \/ \E t \in Slots : ToggleSelectPostLike(t)
    \/ \E t \in Slots : ToggleWritePostLike(t)
    \/ \E t \in Slots : FetchPostsSelect(t)
    \/ \E t \in Slots : FetchPostsResponse(t)
    \/ \E c \in Clients : Mount(c)
    \/ \E c \in Clients, i \in 1..MaxComments : ClickLike(c, i)
    \/ \E t \in Slots : GetUser(t)
    \/ \E t \in Slots : ToggleSelectLike(t)
    \/ \E t \in Slots : ToggleWriteLike(t)
    \/ \E t \in Slots : FetchSelect(t)
    \/ \E t \in Slots : FetchResponse(t)
    \/ \E t \in Slots : Return(t)

PostSpec == PostInit /\ [][PostNext]_vars

----------------------------------------------------------------------------
(* Properties of the tree builder (TreeSpec) *)

Range(q) == {q[k] : k \in DOMAIN q}

FlatIds == {flat[k].id : k \in DOMAIN flat}

\* the ids of the comments of flat whose parent_id is p
ChildrenOf(p) == {flat[k].id : k \in {j \in DOMAIN flat : flat[j].parent_id = p}}

\* the position of the comment with this id in flat
PosInFlat(id) == CHOOSE k \in DOMAIN flat : flat[k].id = id

\* a list holds exactly the ids of a set, each once
ListsExactly(q, ids) == Range(q) = ids /\ Len(q) = Cardinality(ids)

\* a list keeps the order of flat, which is ascending created_at
InFlatOrder(q) ==
    \A a, b \in DOMAIN q :
        a < b => /\ PosInFlat(q[a]) < PosInFlat(q[b])
                 /\ flat[PosInFlat(q[a])].created_at
                        <= flat[PosInFlat(q[b])].created_at

\* the comments of flat whose parent_id is the id of no comment of flat
Orphans ==
    {flat[k].id : k \in {j \in DOMAIN flat :
        flat[j].parent_id # NULL /\ flat[j].parent_id \notin FlatIds}}

ScenarioFlat == <<FlatRow(1, NULL, 1), FlatRow(2, 1, 2), FlatRow(3, NULL, 3)>>

ScenarioTree ==
    [rootComments |-> <<1, 3>>,
     commentMap |->
        [i \in {1, 2, 3} |->
            [row |-> ScenarioFlat[i],
             replies |-> IF i = 1 THEN <<2>> ELSE <<>>]]]

\* C1: for every flat set with unique ids, the replies of every node are
\* exactly the comments whose parent_id is the node's id, the root list is
\* exactly the comments with a null parent_id; [1 (root), 2 (parent 1),
\* 3 (root)] gives [1 with replies [2], 3 with replies []] and the empty
\* set gives the empty forest.
C1_ChildrenAndRoots ==
    forest.built =>
        /\ DOMAIN forest.tree.commentMap = FlatIds
        /\ \A i \in FlatIds :
              /\ forest.tree.commentMap[i].row = flat[PosInFlat(i)]
              /\ ListsExactly(forest.tree.commentMap[i].replies, ChildrenOf(i))
        /\ ListsExactly(forest.tree.rootComments, ChildrenOf(NULL))
        /\ flat = ScenarioFlat => forest.tree = ScenarioTree
        /\ flat = <<>> => forest.tree = EmptyTree

C1_Witness == forest.built /\ flat = ScenarioFlat

\* C2: the root list and every replies list are in the relative order of
\* the input, which is ascending created_at.
C2_SiblingOrder ==
    forest.built =>
        /\ InFlatOrder(forest.tree.rootComments)
        /\ \A i \in DOMAIN forest.tree.commentMap :
              InFlatOrder(forest.tree.commentMap[i].replies)

C2_Witness ==
    /\ forest.built
    /\ Len(forest.tree.rootComments) >= 1
    /\ \E i \in DOMAIN forest.tree.commentMap :
          Len(forest.tree.commentMap[i].replies) >= 2

\* C3: a comment whose non-null parent_id is the id of no comment of the
\* set is in neither the root list nor any replies list, and the tree is
\* built all the same.
C3_OrphanDropped ==
    forest.built =>
        \A o \in Orphans :
           /\ o \notin Range(forest.tree.rootComments)
           /\ \A i \in DOMAIN forest.tree.commentMap :
                 o \notin Range(forest.tree.commentMap[i].replies)
           /\ o \notin RenderedIds(forest.tree)

C3_Witness ==
    /\ forest.built
    /\ Orphans # {}
    /\ forest.tree.rootComments # <<>>

RECURSIVE ChainDepth(_, _)
ChainDepth(id, fuel) ==
    LET p == flat[PosInFlat(id)].parent_id
    IN IF p = NULL THEN 0
       ELSE IF p \notin FlatIds \/ fuel = 0 THEN -1
       ELSE LET d == ChainDepth(p, fuel - 1)
            IN IF d < 0 THEN -1 ELSE d + 1

\* the comments d levels below the root list of a tree
RECURSIVE LevelIds(_, _)
LevelIds(tr, d) ==
    IF d = 0 THEN RootIds(tr)
    ELSE UNION {Range(tr.commentMap[i].replies) : i \in LevelIds(tr, d - 1)}

\* C19: every comment of a chain root, r1 (reply to root), r2 (reply to
\* r1), ... of the flat set is in the replies list of its parent, and is
\* found from the root list at the depth that is its position in the
\* chain, and at no other depth, however long the chain.
C19_ChainDepth ==
    forest.built =>
        \A i \in FlatIds :
            LET d == ChainDepth(i, MaxFlat)
            IN d >= 0 =>
                 /\ i \in LevelIds(forest.tree, d)
                 /\ \A k \in 0..MaxFlat :
                       k # d => i \notin LevelIds(forest.tree, k)
                 /\ i \in RenderedIds(forest.tree)
                 /\ d > 0 =>
                       i \in Range(forest.tree.commentMap[
                                flat[PosInFlat(i)].parent_id].replies)

\* a chain of three: a reply to a reply was built
C19_Witness ==
    /\ forest.built
    /\ \E i \in FlatIds :
          /\ ChainDepth(i, MaxFlat) = 2
          /\ i \in LevelIds(forest.tree, 2)

----------------------------------------------------------------------------
(* Properties of the comment thread (Spec) *)

\* a row's parent_id chain in tbl leads to comment c
RECURSIVE ChainLeadsTo(_, _, _)
ChainLeadsTo(tbl, r, c) ==
    /\ r.parent_id # NULL
    /\ \/ r.parent_id = c
       \/ \E p \in tbl : p.id = r.parent_id /\ ChainLeadsTo(tbl, p, c)

\* only whitespace, or nothing at all
IsBlank(s) == \A k \in DOMAIN s : s[k] = Space

LikesOf(c) == {l \in comment_likes : l.comment_id = c}

\* C4: when deleteComment(c) deletes comment c, the store loses c and every
\* comment whose parent_id chain leads to c, whoever wrote it, and keeps
\* every other comment as it was; the set the call then fetches holds
\* neither c nor a comment whose chain leads to c.
C4_DeleteStep ==
    \A t \in Slots :
        (/\ tasks[t].op = "delete" /\ tasks[t].pc = "delete"
         /\ tasks'[t].pc = "select"
         /\ \E r \in comments :
               r.id = tasks[t].arg /\ r.author_id = session[tasks[t].client])
        => /\ tasks'[t].applied
           /\ comments' =
                 {r \in comments :
                     r.id # tasks[t].arg
                     /\ ~ChainLeadsTo(comments, r, tasks[t].arg)}

C4_FetchedAfterDelete ==
    \A t \in Slots :
        (/\ tasks[t].op = "delete" /\ tasks[t].applied
         /\ tasks[t].pc = "response" /\ ~tasks[t].data.error)
        => \A k \in DOMAIN tasks[t].data.rows :
              /\ tasks[t].data.rows[k].id # tasks[t].arg
              /\ ~ChainLeadsTo(Range(tasks[t].data.rows),
                               tasks[t].data.rows[k], tasks[t].arg)

C5_ToggleStep ==
    \A t \in Slots :
        (/\ tasks[t].op = "like" /\ tasks[t].pc = "writeLike"
         /\ tasks'[t].pc = "select"
         /\ ~tasks'[t].rejected
         /\ session[tasks[t].client] = tasks[t].uid
         /\ tasks[t].existingLike = SelectLike(tasks[t].arg, tasks[t].uid)
         /\ tasks[t].arg \in CommentIds(comments))
        => LET c == tasks[t].arg
               before == Row(comments, c).likes_count
               after  == Row(comments', c).likes_count
           IN IF tasks[t].existingLike = NULL
              THEN /\ Cardinality(comment_likes') =
                         Cardinality(comment_likes) + 1
                   /\ after = before + 1
              ELSE /\ Cardinality(comment_likes') =
                         Cardinality(comment_likes) - 1
                   /\ after = before - 1

C5_ToggleCountsLike == [][C5_ToggleStep]_vars

\* C6: the likes_count of every comment is the number of comment_likes
\* records that reference it.
C6_LikesCountMatches ==
    \A r \in comments : r.likes_count = Cardinality(LikesOf(r.id))

C8_SubmitStep ==
    \A t \in Slots :
        (tasks[t].op = "idle" /\ tasks'[t].op = "create"
         /\ IsBlank(tasks'[t].content))
        => /\ comments' = comments
           /\ tasks'[t].pc = "done"

C8_NoBlankRow ==
    [][C8_SubmitStep]_vars /\ [](\A r \in comments : ~IsBlank(r.content))

C8_Witness ==
    \E t \in Slots :
        /\ tasks[t].op = "create" /\ tasks[t].pc = "done"
        /\ IsBlank(tasks[t].content)
        /\ tasks[t].arg # NULL
        /\ user[tasks[t].client] # NoUser
        /\ comments # {}

\* C9: createComment and toggleCommentLike called when no user is
\* authenticated throw 'Not authenticated'; they send no insert and no
\* delete (comments and comment_likes stay as they are) and call no fetch.
C9_GetUserStep ==
    \A t \in Slots :
        (/\ tasks[t].pc = "getUser" /\ tasks'[t].pc # "getUser"
         /\ session[tasks[t].client] = NoUser)
        => /\ tasks'[t].pc = "done"
           /\ tasks'[t].outcome = NotAuthenticated
           /\ UNCHANGED <<comments, comment_likes, loading, tree>>

C9_Unauthenticated ==
    \A t \in Slots :
        (tasks[t].op \in {"create", "like"}
         /\ tasks[t].outcome = NotAuthenticated)
        => tasks[t].pc = "done" /\ ~tasks[t].wrote /\ ~tasks[t].fetched

C9_NotAuthenticated == [][C9_GetUserStep]_vars /\ []C9_Unauthenticated

C9_Witness ==
    \E t \in Slots :
        /\ tasks[t].op = "like"
        /\ tasks[t].outcome = NotAuthenticated
        /\ session[tasks[t].client] = NoUser

\* C10: toggleCommentLike ends with a StoreError whenever the store
\* rejects its write.
C10_ToggleStoreError ==
    \A t \in Slots :
        (tasks[t].op = "like" /\ tasks[t].rejected /\ tasks[t].pc = "done")
        => tasks[t].outcome = StoreError

\* C11: when the store rejects the insert of createComment, the call
\* throws the store's error in the same step, having sent the insert
\* once; it calls no fetchComments (loading and the displayed tree stay as
\* they are) and its next step is the return to the caller: no second
\* insert is sent.
C11_InsertStep ==
    \A t \in Slots :
        /\ (tasks[t].op = "create" /\ tasks[t].pc = "insert")
              => ~tasks[t].wrote
        /\ (tasks[t].op = "create" /\ tasks[t].pc = "insert"
            /\ tasks'[t].rejected)
              => /\ tasks'[t].pc = "done"
                 /\ tasks'[t].outcome = StoreError
                 /\ tasks'[t].wrote /\ ~tasks'[t].fetched
                 /\ UNCHANGED <<comments, nextId, loading, tree>>
        /\ (tasks[t].op = "create" /\ tasks[t].rejected
            /\ tasks'[t] # tasks[t])
              => tasks'[t] = IdleTask /\ UNCHANGED <<storeVars, loading, tree>>

C11_Rejected ==
    \A t \in Slots :
        (tasks[t].op = "create" /\ tasks[t].rejected)
        => /\ tasks[t].pc = "done"
           /\ tasks[t].outcome = StoreError
           /\ ~tasks[t].applied /\ ~tasks[t].fetched

C11_InsertRejectedOnce == [][C11_InsertStep]_vars /\ []C11_Rejected

\* the insert policy rejected a reply: the session had ended
C11_Witness ==
    \E t \in Slots :
        /\ tasks[t].op = "create" /\ tasks[t].rejected
        /\ tasks[t].pc = "done" /\ tasks[t].outcome = StoreError
        /\ tasks[t].arg # NULL
        /\ session[tasks[t].client] = NoUser
        /\ tasks[t].uid # NoUser

\* C12: a deleteComment executed for a user who does not own the comment
\* ends with a StoreError, and the comments table stays as it is.
C12_DeleteStep ==
    \A t \in Slots :
        (/\ tasks[t].op = "delete" /\ tasks[t].pc = "delete"
         /\ tasks'[t].pc # "delete"
         /\ \E r \in comments :
               r.id = tasks[t].arg /\ r.author_id # session[tasks[t].client])
        => /\ tasks'[t].pc = "done"
           /\ tasks'[t].outcome = StoreError
           /\ comments' = comments

C12_NonOwnerDeleteRejected == [][C12_DeleteStep]_vars

\* C13: a createComment, deleteComment or toggleCommentLike that fails
\* (it throws, or the store rejects its write) leaves the displayed tree
\* as it was before the attempt: no step of the call up to its write, and
\* no step of a failed call, changes it.
C13_FailedStep ==
    \A t \in Slots :
        tasks[t].op \in {"create", "delete", "like"} =>
           /\ (tasks[t].pc \in {"getUser", "insert", "delete", "selectLike",
                                "writeLike"})
                 => tree'[tasks[t].client] = tree[tasks[t].client]
           /\ (\/ tasks[t].rejected
               \/ tasks[t].outcome \in {NotAuthenticated, StoreError})
                 => tree'[tasks[t].client] = tree[tasks[t].client]

C13_FailureKeepsList == [][C13_FailedStep]_vars

\* C14: a fetchComments that fails leaves the displayed tree as it was
\* before the fetch started: neither the start of a fetch, nor the wait
\* for its answer, nor the handling of an answer that is an error changes
\* the tree; the failure sets the error message and ends loading.
C14_FetchStep ==
    \A t \in Slots :
        LET c == tasks'[t].client
        IN /\ (tasks[t].pc # "select" /\ tasks'[t].pc = "select")
                 => tree'[c] = tree[c]
           /\ tasks[t].pc = "select" => tree'[c] = tree[c]
           /\ (tasks[t].pc = "response" /\ tasks[t].data.error
               /\ tasks'[t].pc # "response")
                 => /\ tree'[c] = tree[c]
                    /\ error'[tasks[t].client] = FailedToLoad
                    /\ ~loading'[tasks[t].client]

C14_FailedFetchKeepsTree == [][C14_FetchStep]_vars

\* the refetch of an accepted delete failed: the deleted comment is still
\* displayed
C14_Witness ==
    \E t \in Slots :
        /\ tasks[t].op = "delete" /\ tasks[t].applied
        /\ tasks[t].pc = "done" /\ tasks[t].fetched
        /\ tasks[t].arg \in DOMAIN tree[tasks[t].client].commentMap
        /\ tasks[t].arg \notin CommentIds(comments)
        /\ error[tasks[t].client] = FailedToLoad

\* C16: the step in which the store accepts the write of createComment,
\* deleteComment or toggleCommentLike calls fetchComments (loading is set
\* and the query is sent); the answer of that query, unless it is an
\* error, is the whole comment set of the post as the store holds it after
\* the write; the call returns only when that answer has been processed;
\* mounting the component starts a fetch.
C16_FetchStep ==
    /\ \A t \in Slots :
          LET c == tasks[t].client
          IN /\ (/\ tasks[t].pc \in {"insert", "delete", "writeLike"}
                 /\ tasks'[t].wrote /\ ~tasks'[t].rejected)
                   => /\ tasks'[t].pc = "select" /\ tasks'[t].fetched
                      /\ loading'[c]
             /\ (tasks[t].pc = "select" /\ tasks'[t].pc # "select")
                   => /\ tasks'[t].pc = "response"
                      /\ \/ tasks'[t].data.error
                         \/ /\ tasks'[t].data.rows = SelectComments(PostOf(c))
                            /\ Range(tasks'[t].data.rows) = comments
             /\ (/\ tasks[t].op \in {"create", "delete", "like"}
                 /\ tasks[t].wrote /\ ~tasks[t].rejected
                 /\ tasks[t].pc # "done" /\ tasks'[t].pc = "done")
                   => tasks[t].pc = "response" /\ tasks'[t].outcome = Returned
    /\ \A c \in Clients :
          (~mounted[c] /\ mounted'[c])
          => \E t \in Slots :
                /\ tasks[t].op = "idle" /\ tasks'[t].op = "fetch"
                /\ tasks'[t].client = c /\ tasks'[t].pc = "select"
                /\ loading'[c]

C16_Accepted ==
    \A t \in Slots :
        (tasks[t].wrote /\ ~tasks[t].rejected)
        => /\ tasks[t].fetched
           /\ tasks[t].pc \in {"select", "response", "done"}
           /\ tasks[t].pc = "done" => tasks[t].outcome = Returned

C16_RefetchAfterWrite == [][C16_FetchStep]_vars /\ []C16_Accepted

\* a like was inserted, and the call returned after the fetch that shows it
C16_Witness ==
    \E t \in Slots :
        /\ tasks[t].op = "like" /\ tasks[t].applied
        /\ tasks[t].pc = "done" /\ tasks[t].outcome = Returned
        /\ tasks[t].arg \in DOMAIN tree[tasks[t].client].commentMap
        /\ tree[tasks[t].client].commentMap[tasks[t].arg].row.likes_count = 1
        /\ mounted[tasks[t].client]

----------------------------------------------------------------------------
(* Properties of overlapping calls (RaceSpec) *)

\* C15: the displayed tree is empty until a fetch succeeds, and it changes
\* only when the answer of a successful fetch is processed, to exactly
\* the tree built from the rows of that answer: every displayed comment,
\* with its likes_count, is a row of that answer, and nothing of the tree
\* displayed before is kept.
C15_TreeStep ==
    \A c \in Clients :
        tree'[c] # tree[c] =>
            \E t \in Slots :
                /\ tasks[t].client = c
                /\ tasks[t].pc = "response" /\ ~tasks[t].data.error
                /\ tasks'[t].pc # "response"
                /\ tree'[c] = Rendered(BuildTree(tasks[t].data.rows))
                /\ \A i \in DOMAIN tree'[c].commentMap :
                      tree'[c].commentMap[i].row
                         \in Range(tasks[t].data.rows)

C15_TreeIsLastFetch ==
    /\ \A c \in Clients : tree[c] = EmptyTree
    /\ [][C15_TreeStep]_vars

\* a refetch replaced a tree of two comments by the tree of the one left
C15_Witness ==
    \E t \in Slots :
        /\ tasks[t].op = "delete" /\ tasks[t].applied
        /\ tasks[t].pc = "done" /\ tasks[t].outcome = Returned
        /\ tasks[t].arg \notin DOMAIN tree[tasks[t].client].commentMap
        /\ tree[tasks[t].client].rootComments # <<>>
        /\ DOMAIN tree[tasks[t].client].commentMap = CommentIds(comments)

\* C17: the likes_count of every comment is a natural number in every
\* reachable state of the store, whatever the order and the overlap of
\* like toggles, comment deletions and their cascades.
C17_LikesCountNonNegative ==
    \A r \in comments : r.likes_count \in Nat

\* the author took their like back while a delete was in flight: the
\* count went up and came down again
C17_Witness ==
    /\ nextLikeId >= 1
    /\ comment_likes = {}
    /\ \E r \in comments, t \in Slots :
          /\ r.likes_count = 0
          /\ tasks[t].op = "like" /\ tasks[t].arg = r.id /\ tasks[t].applied
          /\ tasks[t].uid = r.author_id
          /\ tasks[t].existingLike # NULL
    /\ \E t \in Slots : tasks[t].op = "delete" /\ tasks[t].wrote

\* user u has a like on comment a in a comment_likes table
Liked(likes, a, u) == \E l \in likes : l.comment_id = a /\ l.user_id = u

\* C20: toggleCommentLike writes what it decided from the like state it
\* read.  A write made when that state is still the one read toggles the
\* like; a write made after another toggle of the same user on the same
\* comment changed the state changes nothing (the insert meets the like
\* that is there, the delete finds its row gone).  So two calls that both
\* read before either writes toggle the like once, and the user's like
\* state ends opposite to the one two calls in sequence restore.
C20_WriteStep ==
    \A t \in Slots :
        (/\ tasks[t].op = "like" /\ tasks[t].pc = "writeLike"
         /\ tasks'[t].pc # "writeLike")
        => LET a == tasks[t].arg
               u == tasks[t].uid
           IN /\ SelectLike(a, u) # tasks[t].existingLike
                    => /\ UNCHANGED <<comments, comment_likes>>
                       /\ ~tasks'[t].applied
              /\ (SelectLike(a, u) = tasks[t].existingLike
                  /\ tasks'[t].applied)
                    => Liked(comment_likes', a, u)
                          # Liked(comment_likes, a, u)

C20_LikeRace == [][C20_WriteStep]_vars

\* two calls of one user on one comment both read the like that was there;
\* both have sent their delete, one removed the row and the other removed
\* nothing: the comment that was liked is not liked
C20_Witness ==
    \E t, t2 \in Slots :
        /\ t # t2
        /\ tasks[t].op = "like" /\ tasks[t2].op = "like"
        /\ tasks[t].arg = tasks[t2].arg /\ tasks[t].uid = tasks[t2].uid
        /\ tasks[t].existingLike # NULL
        /\ tasks[t].existingLike = tasks[t2].existingLike
        /\ tasks[t2].wrote /\ tasks[t2].applied
        /\ tasks[t].wrote /\ ~tasks[t].applied /\ ~tasks[t].rejected
        /\ ~Liked(comment_likes, tasks[t].arg, tasks[t].uid)
        /\ tasks[t].arg \in CommentIds(comments)

\* C21: when calls of one client overlap, every fetch answer that arrives
\* without error replaces the displayed tree by the tree of its own rows,
\* whatever the store holds by then: the answer processed last wins.  So
\* an answer read before a write was accepted and processed after the
\* refetch of that write leaves, when every call has ended, a tree that
\* lacks a comment the store accepted.
C21_ResponseStep ==
    \A t \in Slots :
        (/\ tasks[t].pc = "response" /\ ~tasks[t].data.error
         /\ tasks'[t].pc # "response")
        => tree'[tasks[t].client] = Rendered(BuildTree(tasks[t].data.rows))

C21_LastResponseWins == [][C21_ResponseStep]_vars

\* every call has returned, no fetch failed, and the comment the store
\* accepted in between is not in the displayed tree
C21_Witness ==
    /\ Quiet
    /\ \E c \in Clients :
          /\ mounted[c] /\ ~loading[c] /\ error[c] = "none"
          /\ tree[c].rootComments # <<>>
          /\ \E r \in comments :
                /\ r.id > 1 /\ r.post_id = PostOf(c)
                /\ r.id \notin DOMAIN tree[c].commentMap

\* C22: the calls of createComment are neither debounced nor serialized.
\* While a createComment call of the client is running, a second submit
\* of the form starts a second call; and every insert the store accepts
\* adds one row of its own (a new id, the content, parent and author of
\* its call), whatever the other calls did.  Two calls made before either
\* completes leave two new comments in the store.
C22_CreateRunning(c) ==
    \E u \in Slots : /\ tasks[u].op = "create" /\ tasks[u].client = c
                     /\ tasks[u].pc \in {"getUser", "insert", "select",
                                         "response"}

C22_SecondCallStarts ==
    \A c \in Clients :
        (/\ C22_CreateRunning(c)
         /\ mounted[c] /\ user[c] # NoUser /\ overlap /\ NoneDone
         /\ \E t \in Slots : FreeSlot(t)
         /\ nextId + PendingCreates < MaxComments /\ RowsLeft)
        => ENABLED (/\ SubmitComment(c, <<"a">>)
                    /\ \E t \in Slots : /\ tasks[t].op = "idle"
                                        /\ tasks'[t].op = "create"
                                        /\ tasks'[t].pc = "getUser")

C22_InsertStep ==
    \A t \in Slots :
        (/\ tasks[t].op = "create" /\ tasks[t].pc = "insert"
         /\ tasks'[t].pc # "insert" /\ tasks'[t].applied)
        => \E r \in comments' :
              /\ r.id \notin CommentIds(comments)
              /\ comments' = comments \cup {r}
              /\ r.content = tasks[t].content
              /\ r.parent_id = tasks[t].arg
              /\ r.author_id = tasks[t].uid

C22_NotSerialized == []C22_SecondCallStarts /\ [][C22_InsertStep]_vars

\* two calls with the same content are running, both inserts were
\* accepted, and the store holds the two new comments
C22_Witness ==
    \E t, t2 \in Slots :
        /\ t # t2
        /\ tasks[t].op = "create" /\ tasks[t2].op = "create"
        /\ tasks[t].client = tasks[t2].client
        /\ tasks[t].uid = tasks[t2].uid
        /\ tasks[t].content = tasks[t2].content
        /\ tasks[t].arg = tasks[t2].arg
        /\ tasks[t].applied /\ tasks[t2].applied
        /\ tasks[t].pc = "select" /\ tasks[t2].pc = "select"
        /\ Cardinality({r \in comments :
              /\ r.id > 1 /\ r.author_id = tasks[t].uid
              /\ r.content = tasks[t].content
              /\ r.parent_id = tasks[t].arg}) = 2

\* C25: no fetched comment is dropped as an orphan.  In every reachable
\* state of the store the parent_id of a reply names a comment that
\* exists and is of the same post, so the tree built from the comments of
\* a post, and the tree built from every answer a fetch holds, renders
\* every one of its rows.
C25_AllRendered(rows) ==
    RenderedIds(BuildTree(rows)) = {rows[k].id : k \in DOMAIN rows}

C26_TwoLevels ==
    \A r \in comments :
        r.parent_id # NULL =>
            /\ r.parent_id \in CommentIds(comments)
            /\ Row(comments, r.parent_id).parent_id = NULL

\* a reply made with the reply form is in the store and is displayed under
\* its root comment, where it has no Reply button
C26_Witness ==
    \E c \in Clients, r \in comments :
        /\ r.parent_id # NULL
        /\ ~loading[c] /\ user[c] # NoUser
        /\ r.id \in DOMAIN tree[c].commentMap
        /\ r.id \notin RootIds(tree[c])
        /\ r.parent_id \in RootIds(tree[c])
        /\ nextId < MaxComments

\* C27: when the calls of the client do not overlap, nothing else writes
\* to the store and no fetch has failed, then at the return of every
\* createComment, deleteComment and toggleCommentLike call the displayed
\* tree is the tree built from the comments the store holds for the post.
C27_TreeCurrentAtReturn ==
    \A t \in Slots :
        LET c == tasks[t].client
        IN (/\ tasks[t].op \in {"create", "delete", "like"}
            /\ tasks[t].pc = "done" /\ tasks[t].outcome = Returned
            /\ ~overlap
            /\ error[c] = "none")
           => /\ tree[c] = Rendered(BuildTree(SelectComments(PostOf(c))))
              /\ ~loading[c]

\* a call that changed the store returns and the tree shows the change:
\* the reply it made
C27_Witness ==
    \E t \in Slots :
        LET c == tasks[t].client
        IN /\ tasks[t].op = "create" /\ tasks[t].applied
           /\ tasks[t].pc = "done" /\ tasks[t].outcome = Returned
           /\ tasks[t].arg # NULL
           /\ error[c] = "none" /\ ~overlap
           /\ nextId \in DOMAIN tree[c].commentMap
           /\ tree[c].commentMap[nextId].row.parent_id = tasks[t].arg

\* C29: for every flat set with unique ids, every comment of the set
\* occurs at most once in the root list and the replies lists of the tree
\* taken together: not as a root and as a reply, not under two parents,
\* not twice in one list.
C29_Occurrences(tr, id) ==
    Cardinality(
        {<<NULL, k>> : k \in {j \in DOMAIN tr.rootComments :
                                 tr.rootComments[j] = id}}
        \cup UNION {{<<p, k>> : k \in {j \in DOMAIN tr.commentMap[p].replies :
                                          tr.commentMap[p].replies[j] = id}}
                    : p \in DOMAIN tr.commentMap})

C29_AtMostOnce ==
    forest.built =>
        \A id \in FlatIds : C29_Occurrences(forest.tree, id) <= 1

\* a tree of three comments was built: a root, its reply, and a reply to
\* the reply, each listed once
C29_Witness ==
    /\ forest.built
    /\ Len(flat) = 3
    /\ Len(forest.tree.rootComments) = 1
    /\ \E a, b \in FlatIds :
          /\ a # b
          /\ forest.tree.commentMap[forest.tree.rootComments[1]].replies
                = <<a>>
          /\ forest.tree.commentMap[a].replies = <<b>>
    /\ \A id \in FlatIds : C29_Occurrences(forest.tree, id) = 1

\* C30: the loading flag of the hook is true exactly when a fetchComments
\* call of the client is in flight (its query is sent and its answer is
\* not yet processed), also when fetches overlap and when a fetch fails.
C30_FetchInFlight(c) ==
    \E t \in Slots : /\ tasks[t].client = c
                     /\ tasks[t].pc \in {"select", "response"}

C30_LoadingIffInFlight ==
    \A c \in Clients : loading[c] <=> C30_FetchInFlight(c)

----------------------------------------------------------------------------
(* Properties of the pages that use usePosts (PostSpec) *)

\* C24: createPost called when no user is authenticated, or when the
\* lookup of the user returns an error, throws 'You must be signed in to
\* create a post'; it sends no insert and calls no fetchPosts, and the
\* posts list of the hook stays as it is.
C24_GetUserStep ==
    \A t \in Slots :
        (/\ tasks[t].op = "createPost"
         /\ tasks[t].pc = "postGetUser" /\ tasks'[t].pc # "postGetUser")
        => \/ /\ session[tasks[t].client] # NoUser
              /\ tasks'[t].pc = "postInsert"
              /\ tasks'[t].uid = session[tasks[t].client]
              /\ UNCHANGED <<posts, usePosts>>
           \/ /\ tasks'[t].pc = "done"
              /\ tasks'[t].outcome = MustBeSignedIn
              /\ ~tasks'[t].wrote /\ ~tasks'[t].fetched
              /\ UNCHANGED <<posts, post_likes, usePosts>>

C24_LookupMayFail ==
    \A t \in Slots :
        (tasks[t].op = "createPost" /\ tasks[t].pc = "postGetUser"
         /\ NoneDone)
        => ENABLED (/\ PostGetUser(t)
                    /\ tasks'[t].outcome = MustBeSignedIn)

C24_Thrown ==
    \A t \in Slots :
        (tasks[t].op = "createPost" /\ tasks[t].outcome = MustBeSignedIn)
        => tasks[t].pc = "done" /\ ~tasks[t].wrote /\ ~tasks[t].fetched

C24_MustBeSignedIn ==
    /\ [][C24_GetUserStep]_vars
    /\ [](C24_LookupMayFail /\ C24_Thrown)

\* the session has ended, the form was submitted and createPost threw; the
\* list the hook fetched on mount is still there
C24_Witness ==
    \E t \in Slots :
        LET c == tasks[t].client
        IN /\ tasks[t].op = "createPost"
           /\ tasks[t].outcome = MustBeSignedIn
           /\ session[c] = NoUser /\ user[c] # NoUser
           /\ usePosts[c].posts # <<>> /\ ~usePosts[c].loading
           /\ posts = {InitialPost}

\* C28: when every fetchPosts call in flight has completed, the posts list
\* of the home page is the answer to the call made last, whatever the
\* order in which the answers of overlapping calls arrive: once the
\* answer to the call made last is in the list, the answer to a call made
\* before it does not change the list.
C28_ResponseStep ==
    \A t \in Slots :
        LET c == tasks[t].client
        IN (/\ tasks[t].pc = "postResponse" /\ tasks'[t].pc # "postResponse"
            /\ ~tasks[t].data.error
            /\ page[c] = "home" /\ usePosts[c].error = "none"
            /\ \A u \in Slots :
                  tasks[u].pc \in {"postSelect", "postResponse"}
                      => ~tasks[u].latest)
           => usePosts'[c].posts = usePosts[c].posts

C28_LastQueryShown == [][C28_ResponseStep]_vars

\* C23: in every reachable state of the store, whatever the interleaving
\* of the toggleCommentLike and toggleLike calls, comment_likes holds at
\* most one row for a comment and a user, and post_likes at most one row
\* for a post and a user.
C23_OneLikePerPair ==
    /\ \A l, m \in comment_likes :
          (l.comment_id = m.comment_id /\ l.user_id = m.user_id) => l = m
    /\ \A l, m \in post_likes :
          (l.post_id = m.post_id /\ l.user_id = m.user_id) => l = m

\* two toggleLike calls of one user on one post both found no like and
\* both sent their insert: one row was added, the other insert was
\* refused; the user's like of the comment is in comment_likes
C23_Witness ==
    /\ comment_likes # {}
    /\ \E t, t2 \in Slots :
          /\ t # t2
          /\ tasks[t].op = "toggleLike" /\ tasks[t2].op = "toggleLike"
          /\ tasks[t].post = tasks[t2].post /\ tasks[t].uid = tasks[t2].uid
          /\ tasks[t].existingLike = NULL /\ tasks[t2].existingLike = NULL
          /\ tasks[t].wrote /\ tasks[t].applied
          /\ tasks[t2].wrote /\ tasks[t2].rejected
          /\ Cardinality({l \in post_likes :
                /\ l.post_id = tasks[t].post
                /\ l.user_id = tasks[t].uid}) = 1
          /\ \E l \in comment_likes : l.user_id = tasks[t].uid

====
